---- MODULE Spec2Model ----
(***************************************************************************)
(* A model of blockstack/lib/scripts.py: the name and namespace grammar,   *)
(* the name and namespace pricing functions, the typed field checkers, the *)
(* public-key extractor and the opcode filter.                             *)
(*                                                                         *)
(* Python strings are sequences of one-character strings.  A value that    *)
(* may be None is None (the empty tuple) or Some(v) (the one-element tuple *)
(* of v), so that None differs from the empty string.  Each function of    *)
(* the source is an operator, computed as the source computes it; each     *)
(* call is an action that stores the returned value in                     *)
(* results[<function name>].  price_name and the two functions that loop   *)
(* over a list are modelled one statement or one iteration per step.       *)
(***************************************************************************)
EXTENDS Integers, Sequences, FiniteSets, TLC

VARIABLES
    pc,                 \* position of the call in progress
    results,            \* function name -> value returned
    fqn,                \* argument of the grammar functions
    name,               \* price_name: name
    namespace,          \* price_name: namespace parameter record
    price_multiplier,   \* value get_epoch_price_multiplier returns for the call
    cost_unit,          \* price_name local
    bucket_exponent,    \* price_name local
    discount,           \* price_name local
    price,              \* price_name local (a rational <<numerator, denominator>>)
    namespace_id,       \* price_namespace: namespace_id
    units,              \* price_namespace: units; price_name local
    price_table,        \* value get_epoch_namespace_prices returns for the call
    value,              \* check_block / check_offset / check_count: first argument
    max_value,          \* check_offset / check_count: max_value
    BLOCKSTACK_TEST,    \* the test-mode flag of the configuration
    inputs,             \* get_public_key_hex_from_tx: inputs
    address,            \* get_public_key_hex_from_tx: address
    checked_ops,        \* find_by_opcode: checked_ops
    opcode,             \* find_by_opcode: opcode
    ret,                \* find_by_opcode local
    idx                 \* position of the for loop in progress (1-based)

vars == <<pc, results, fqn, name, namespace, price_multiplier, cost_unit,
          bucket_exponent, discount, price, namespace_id, units, price_table,
          value, max_value, BLOCKSTACK_TEST, inputs, address, checked_ops,
          opcode, ret, idx>>

grammarVars == <<fqn>>
priceVars == <<name, namespace, price_multiplier, cost_unit, bucket_exponent,
               discount, price>>
namespacePriceVars == <<namespace_id, price_table>>
checkVars == <<value, max_value, BLOCKSTACK_TEST>>
txVars == <<inputs, address>>
opsVars == <<checked_ops, opcode, ret>>

(***************************************************************************)
(* Bounds of the model.                                                    *)
(***************************************************************************)
MaxCoreLen == 3

(***************************************************************************)
(* Python values and string primitives.                                    *)
(***************************************************************************)
None == <<>>

Some(v) == <<v>>

IsNone(o) == o = <<>>

Val(o) == o[1]

\* All sequences over S of length at most n.
SeqsUpTo(S, n) == UNION {[1..k -> S] : k \in 0..n}

\* c * n
Rep(c, n) == [i \in 1..n |-> c]

\* s.count(c)
Count(s, c) == Cardinality({i \in 1..Len(s) : s[i] = c})

\* c in s
Contains(s, c) == \E i \in 1..Len(s) : s[i] = c

\* s.split(c): the parts of s between the occurrences of c, in order.
RECURSIVE Split(_, _)
Split(s, c) ==
    IF ~Contains(s, c)
    THEN <<s>>
    ELSE LET i == CHOOSE k \in 1..Len(s) :
                      s[k] = c /\ \A j \in 1..(k-1) : s[j] # c
         IN  <<SubSeq(s, 1, i-1)>> \o Split(SubSeq(s, i+1, Len(s)), c)

\* seq[k] for a Python index k: 0-based, negative k counted from the end.
PyIndex(seq, k) == IF k >= 0 THEN seq[k+1] ELSE seq[Len(seq) + k + 1]

\* a called function has returned
Called(f) == f \in DOMAIN results

Return(f, v) == results' = (f :> v) @@ results

(***************************************************************************)
(* Collaborators of the grammar: the b40 alphabet and the length table.    *)
(***************************************************************************)
B40_CHARS ==
    {"0","1","2","3","4","5","6","7","8","9",
     "a","b","c","d","e","f","g","h","i","j","k","l","m",
     "n","o","p","q","r","s","t","u","v","w","x","y","z",
     "-","_",".","+"}

is_b40(s) == \A i \in 1..Len(s) : s[i] \in B40_CHARS

LENGTHS == [blockchain_id_name |-> 37, blockchain_id_namespace_id |-> 19]

(***************************************************************************)
(* Grammar validator.                                                      *)
(***************************************************************************)
is_namespace_valid(ns) ==
    IF ~is_b40(ns) \/ Contains(ns, "+") \/ Count(ns, ".") > 0
    THEN FALSE
    ELSE IF Len(ns) = 0 \/ Len(ns) > LENGTHS.blockchain_id_namespace_id
    THEN FALSE
    ELSE TRUE

\* is_name_valid without the length test of lines 53-55
is_name_valid_no_length(s) ==
    IF Count(s, ".") # 1
    THEN FALSE
    ELSE LET parts == Split(s, ".")
             nm == parts[1]
             ns == parts[2]
         IN  IF Len(nm) = 0 \/ Len(ns) = 0
             THEN FALSE
             ELSE IF ~is_b40(nm) \/ Contains(nm, "+") \/ Contains(nm, ".")
             THEN FALSE
             ELSE is_namespace_valid(ns)

is_name_valid(s) ==
    IF Count(s, ".") # 1
    THEN FALSE
    ELSE LET parts == Split(s, ".")
             nm == parts[1]
             ns == parts[2]
         IN  IF Len(nm) = 0 \/ Len(ns) = 0
             THEN FALSE
             ELSE IF ~is_b40(nm) \/ Contains(nm, "+") \/ Contains(nm, ".")
             THEN FALSE
             ELSE IF ~is_namespace_valid(ns)
             THEN FALSE
             ELSE IF Len(s) > LENGTHS.blockchain_id_name
             THEN FALSE
             ELSE TRUE

get_namespace_from_name(s) ==
    IF ~Contains(s, ".")
    THEN <<>>
    ELSE PyIndex(Split(s, "."), -1)

\* get_name_from_fq_name cutting at the last dot, as its docstring words it
get_name_from_fq_name_last_dot(s) ==
    IF ~Contains(s, ".")
    THEN None
    ELSE LET i == CHOOSE k \in 1..Len(s) :
                      s[k] = "." /\ \A j \in (k+1)..Len(s) : s[j] # "."
         IN  Some(SubSeq(s, 1, i-1))

get_name_from_fq_name(s) ==
    IF ~Contains(s, ".")
    THEN None
    ELSE Some(PyIndex(Split(s, "."), 0))

\* The strings the grammar functions are called with: every string of at
\* most MaxCoreLen characters over one character of each class the grammar
\* tells apart, alone and lengthened at either end up to the two limits.
GrammarChars == {"a", ".", "+", "A"}
PrefixPads == {0, LENGTHS.blockchain_id_name - 2, LENGTHS.blockchain_id_name - 1}
SuffixPads == {0, LENGTHS.blockchain_id_namespace_id - 1,
               LENGTHS.blockchain_id_namespace_id}
GrammarInputs ==
    {Rep("a", m) \o core \o Rep("a", n) :
        m \in PrefixPads, n \in SuffixPads,
        core \in SeqsUpTo(GrammarChars, MaxCoreLen)}

IdlePrice ==
    /\ name = <<>> /\ namespace = None /\ price_multiplier = None
    /\ cost_unit = None /\ bucket_exponent = None /\ discount = None
    /\ price = None /\ units = None
IdleNamespacePrice == namespace_id = <<>> /\ price_table = None
IdleCheck == value = None /\ max_value = None /\ BLOCKSTACK_TEST = FALSE
IdleTx == inputs = <<>> /\ address = None
IdleOps == checked_ops = <<>> /\ opcode = None /\ ret = None
IdleGrammar == fqn = <<>>

InitGrammar ==
    /\ pc = "ready"
    /\ results = <<>>
    /\ fqn \in GrammarInputs
    /\ idx = 0
    /\ IdlePrice /\ IdleNamespacePrice /\ IdleCheck /\ IdleTx /\ IdleOps

CallIsNameValid ==
    /\ pc = "ready"
    /\ ~Called("is_name_valid")
    /\ Return("is_name_valid", is_name_valid(fqn))
    /\ UNCHANGED <<pc, idx, grammarVars, priceVars, units,
                   namespacePriceVars, checkVars, txVars, opsVars>>

CallGetNamespaceFromName ==
    /\ pc = "ready"
    /\ ~Called("get_namespace_from_name")
    /\ Return("get_namespace_from_name", get_namespace_from_name(fqn))
    /\ UNCHANGED <<pc, idx, grammarVars, priceVars, units,
                   namespacePriceVars, checkVars, txVars, opsVars>>

CallGetNameFromFqName ==
    /\ pc = "ready"
    /\ ~Called("get_name_from_fq_name")
    /\ Return("get_name_from_fq_name", get_name_from_fq_name(fqn))
    /\ UNCHANGED <<pc, idx, grammarVars, priceVars, units,
                   namespacePriceVars, checkVars, txVars, opsVars>>

NextGrammar ==
    \/ CallIsNameValid
    \/ CallGetNamespaceFromName
    \/ CallGetNameFromFqName

SpecGrammar == InitGrammar /\ [][NextGrammar]_vars

(***************************************************************************)
(* Claims about the grammar.                                               *)
(***************************************************************************)
FirstDot(s) == CHOOSE k \in 1..Len(s) : s[k] = "." /\ \A j \in 1..(k-1) : s[j] # "."
LastDot(s) == CHOOSE k \in 1..Len(s) : s[k] = "." /\ \A j \in (k+1)..Len(s) : s[j] # "."
Before(s, i) == SubSeq(s, 1, i-1)
After(s, i) == SubSeq(s, i+1, Len(s))

NameValidContract(s) ==
    \E i \in 1..Len(s) :
        /\ s[i] = "."
        /\ \A j \in (1..Len(s)) \ {i} : s[j] # "."
        /\ Len(Before(s, i)) > 0
        /\ Len(After(s, i)) > 0
        /\ is_b40(Before(s, i))
        /\ \A j \in 1..(i-1) : s[j] \notin {"+", "."}
        /\ is_namespace_valid(After(s, i))
        /\ Len(s) <= LENGTHS.blockchain_id_name

\* C1: is_name_valid(s) is True exactly when s has exactly one '.', the parts
\* before and after it are non-empty, the part before it is b40 and holds no
\* '+' and no '.', the part after it satisfies is_namespace_valid, and
\* len(s) is at most the configured maximum name length.
C1_NameValidIff ==
    Called("is_name_valid") =>
        (results["is_name_valid"] <=> NameValidContract(fqn))

C1_Witness ==
    /\ Called("is_name_valid")
    /\ results["is_name_valid"]
    /\ Len(fqn) = LENGTHS.blockchain_id_name

MaxNameLen == 3
MaxBuckets == 2

NAMESPACE_VERSION_PAY_TO_BURN == 1
NAMESPACE_VERSION_PAY_WITH_STACKS == 3
NAME_COST_UNIT == 100
NAME_COST_UNIT_STACKS == 9

Rat(n) == <<n, 1>>
RatMul(a, b) == <<a[1] * b[1], a[2] * b[2]>>
RatDiv(a, b) == <<a[1] * b[2], a[2] * b[1]>>
RatLT(a, b) == a[1] * b[2] < b[1] * a[2]
RatEq(a, b) == a[1] * b[2] = b[1] * a[2]
RatGE(a, b) == ~RatLT(a, b)

Max(a, b) == IF a >= b THEN a ELSE b

UPPERCASE == <<"A","B","C","D","E","F","G","H","I","J","K","L","M",
               "N","O","P","Q","R","S","T","U","V","W","X","Y","Z">>
LOWERCASE == <<"a","b","c","d","e","f","g","h","i","j","k","l","m",
               "n","o","p","q","r","s","t","u","v","w","x","y","z">>

\* s.lower()
Lower(s) ==
    [i \in 1..Len(s) |->
        IF \E k \in 1..26 : UPPERCASE[k] = s[i]
        THEN LOWERCASE[CHOOSE k \in 1..26 : UPPERCASE[k] = s[i]]
        ELSE s[i]]

\* sum( [s.lower().count(v) for v in vs] )
RECURSIVE SumOfCounts(_, _)
SumOfCounts(s, vs) ==
    IF vs = <<>> THEN 0
    ELSE Count(Lower(s), Head(vs)) + SumOfCounts(s, Tail(vs))

VOWELS == <<"a", "e", "i", "o", "u", "y">>
NONALPHA == <<"0", "1", "2", "3", "4", "5", "6", "7", "8", "9", "-", "_">>

CostUnit(ns) ==
    IF ns.version = NAMESPACE_VERSION_PAY_WITH_STACKS
    THEN NAME_COST_UNIT_STACKS
    ELSE NAME_COST_UNIT

PriceUnits(ns) ==
    IF ns.version = NAMESPACE_VERSION_PAY_WITH_STACKS
    THEN "STACKS"
    ELSE "BTC"

\* the bucket lookup indexed by len(name) instead of len(name)-1
BucketExponentOffByOne(nm, buckets) ==
    IF Len(nm) < Len(buckets)
    THEN PyIndex(buckets, Len(nm))
    ELSE PyIndex(buckets, -1)

BucketExponent(nm, buckets) ==
    IF Len(nm) < Len(buckets)
    THEN PyIndex(buckets, Len(nm) - 1)
    ELSE PyIndex(buckets, -1)

\* the two discounts multiplied instead of the larger one taken
DiscountMultiplied(nm, ns) ==
    LET d1 == IF SumOfCounts(nm, VOWELS) = 0
              THEN Max(1, ns.no_vowel_discount)
              ELSE 1
    IN  IF SumOfCounts(nm, NONALPHA) > 0
        THEN d1 * ns.nonalpha_discount
        ELSE d1

Discount(nm, ns) ==
    LET d1 == IF SumOfCounts(nm, VOWELS) = 0
              THEN Max(1, ns.no_vowel_discount)
              ELSE 1
    IN  IF SumOfCounts(nm, NONALPHA) > 0
        THEN Max(d1, ns.nonalpha_discount)
        ELSE d1

\* (float(coeff * (base ** bucket_exponent)) / float(discount)) * cost_unit
PriceFormula(coeff, base, exponent, disc, cu) ==
    RatMul(RatDiv(Rat(coeff * (base ^ exponent)), Rat(disc)), Rat(cu))

\* the price left below cost_unit
NoFloor(p, cu) == p

FloorAtCostUnit(p, cu) == IF RatLT(p, Rat(cu)) THEN Rat(cu) ELSE p

PriceChars == {"b", "1", "A"}
PriceNames == SeqsUpTo(PriceChars, MaxNameLen) \ {<<>>}
Exponents == {0, 2}
Namespaces ==
    [version : {NAMESPACE_VERSION_PAY_TO_BURN, NAMESPACE_VERSION_PAY_WITH_STACKS},
     base : {2, 4},
     coeff : {1, 250},
     buckets : SeqsUpTo(Exponents, MaxBuckets) \ {<<>>},
     no_vowel_discount : {1, 2, 10},
     nonalpha_discount : {1, 2, 10},
     namespace_id : {<<"i", "d">>}]
Multipliers == {<<0, 1>>, <<1, 1>>, <<1, 10>>}

InitPrice ==
    /\ pc = "ready"
    /\ results = <<>>
    /\ name \in PriceNames
    /\ namespace \in Namespaces
    /\ price_multiplier \in Multipliers
    /\ cost_unit = None /\ bucket_exponent = None /\ discount = None
    /\ price = None /\ units = None
    /\ idx = 0
    /\ IdleGrammar /\ namespace_id = <<>> /\ price_table = None
    /\ IdleCheck /\ IdleTx /\ IdleOps

\* lines 134-153
PriceNameBucket ==
    /\ pc = "ready"
    /\ units' = PriceUnits(namespace)
    /\ cost_unit' = CostUnit(namespace)
    /\ bucket_exponent' = BucketExponent(name, namespace.buckets)
    /\ pc' = "discount"
    /\ UNCHANGED <<results, idx, name, namespace, price_multiplier, discount,
                   price, grammarVars, namespace_id, price_table, checkVars,
                   txVars, opsVars>>

\* lines 148, 155-163
PriceNameDiscount ==
    /\ pc = "discount"
    /\ discount' = Discount(name, namespace)
    /\ pc' = "price"
    /\ UNCHANGED <<results, idx, name, namespace, price_multiplier, cost_unit,
                   bucket_exponent, price, units, grammarVars, namespace_id,
                   price_table, checkVars, txVars, opsVars>>

\* line 165
PriceNamePrice ==
    /\ pc = "price"
    /\ price' = PriceFormula(namespace.coeff, namespace.base, bucket_exponent,
                             discount, cost_unit)
    /\ pc' = "floor"
    /\ UNCHANGED <<results, idx, name, namespace, price_multiplier, cost_unit,
                   bucket_exponent, discount, units, grammarVars, namespace_id,
                   price_table, checkVars, txVars, opsVars>>

\* lines 166-167
PriceNameFloor ==
    /\ pc = "floor"
    /\ price' = FloorAtCostUnit(price, cost_unit)
    /\ pc' = "multiply"
    /\ UNCHANGED <<results, idx, name, namespace, price_multiplier, cost_unit,
                   bucket_exponent, discount, units, grammarVars, namespace_id,
                   price_table, checkVars, txVars, opsVars>>

\* lines 169-170
PriceNameReturn ==
    /\ pc = "multiply"
    /\ Return("price_name", RatMul(price, price_multiplier))
    /\ pc' = "done"
    /\ UNCHANGED <<idx, priceVars, units, grammarVars, namespace_id,
                   price_table, checkVars, txVars, opsVars>>

NextPrice ==
    \/ PriceNameBucket
    \/ PriceNameDiscount
    \/ PriceNamePrice
    \/ PriceNameFloor
    \/ PriceNameReturn

SpecPrice == InitPrice /\ [][NextPrice]_vars

(***************************************************************************)
(* Claims about price_name.                                                *)
(***************************************************************************)
IsVowel(c) == Lower(<<c>>)[1] \in {"a", "e", "i", "o", "u", "y"}
IsNonAlpha(c) == c \in {"0","1","2","3","4","5","6","7","8","9","-","_"}
NoVowels(s) == \A i \in 1..Len(s) : ~IsVowel(s[i])
HasNonAlpha(s) == \E i \in 1..Len(s) : IsNonAlpha(s[i])
VersionCostUnit ==
    IF namespace.version = NAMESPACE_VERSION_PAY_WITH_STACKS
    THEN NAME_COST_UNIT_STACKS
    ELSE NAME_COST_UNIT
Undiscounted ==
    Rat(namespace.coeff * (namespace.base ^ bucket_exponent) * VersionCostUnit)

\* C2: the value price_name returns is never below cost_unit * multiplier.
C2_PriceFloor ==
    Called("price_name") =>
        RatGE(results["price_name"], RatMul(Rat(VersionCostUnit), price_multiplier))

C2_Witness ==
    /\ Called("price_name")
    /\ namespace.coeff * (namespace.base ^ bucket_exponent) < discount
    /\ RatEq(results["price_name"], RatMul(Rat(VersionCostUnit), price_multiplier))

\* C3 as stated: for a name with no vowel and no_vowel_discount = 2 (any
\* nonalpha_discount), the price before the floor is exactly half of
\* coeff * base^bucket_exponent * cost_unit.
C3_HalfPriceAsStated ==
    (pc = "floor" /\ NoVowels(name) /\ namespace.no_vowel_discount = 2) =>
        RatEq(price, RatDiv(Undiscounted, Rat(2)))

\* C3 amended: for a name with no vowel and no_vowel_discount = 2, when the
\* name holds no digit, '-' or '_', or nonalpha_discount is at most 2, the
\* price before the floor is exactly half of
\* coeff * base^bucket_exponent * cost_unit.
C3_HalfPrice ==
    (/\ pc = "floor"
     /\ NoVowels(name)
     /\ namespace.no_vowel_discount = 2
     /\ (~HasNonAlpha(name) \/ namespace.nonalpha_discount <= 2)) =>
        RatEq(price, RatDiv(Undiscounted, Rat(2)))

C3_Witness ==
    /\ pc = "floor"
    /\ NoVowels(name)
    /\ HasNonAlpha(name)
    /\ namespace.no_vowel_discount = 2
    /\ namespace.nonalpha_discount = 2
    /\ RatEq(RatMul(price, Rat(2)), Undiscounted)

\* C4: the bucket exponent is buckets[len(name)-1] when len(name)-1 is an
\* index of buckets and the last entry of buckets otherwise: a one-character
\* name uses buckets[0], a name as long as or longer than buckets uses the
\* last entry.
C4_BucketExponent ==
    pc \in {"discount", "price", "floor", "multiply", "done"} =>
        LET buckets == namespace.buckets
            last == buckets[Len(buckets)]
        IN  /\ bucket_exponent =
                  IF Len(name) - 1 \in 0..(Len(buckets) - 1)
                  THEN buckets[Len(name)]
                  ELSE last
            /\ Len(name) = 1 => bucket_exponent = buckets[1]
            /\ Len(name) >= Len(buckets) => bucket_exponent = last

C4_Witness ==
    /\ pc = "discount"
    /\ Len(name) > Len(namespace.buckets)
    /\ Len(namespace.buckets) > 1
    /\ namespace.buckets[1] # bucket_exponent
    /\ bucket_exponent = namespace.buckets[Len(namespace.buckets)]

(***************************************************************************)
(* Pricing engine: price_namespace.                                        *)
(* price_table is what get_epoch_namespace_prices(block_height, units)     *)
(* returns for the call: None, or Some(the list of prices).                *)
(***************************************************************************)
MaxNamespaceLen == 3
MaxTableLen == 3

\* price_namespace reading the entry before price_table[len(namespace_id)]
price_namespace_index_shifted(nsid, table) ==
    IF IsNone(table)
    THEN None
    ELSE IF Len(nsid) >= Len(Val(table)) \/ Len(nsid) = 0
    THEN None
    ELSE Some(PyIndex(Val(table), Len(nsid) - 1))

price_namespace(nsid, table) ==
    IF IsNone(table)
    THEN None
    ELSE IF Len(nsid) >= Len(Val(table)) \/ Len(nsid) = 0
    THEN None
    ELSE Some(PyIndex(Val(table), Len(nsid)))

NamespaceIds == SeqsUpTo({"a", "b"}, MaxNamespaceLen)
TablePrices == {64, 640}
PriceTables == {None} \cup {Some(t) : t \in SeqsUpTo(TablePrices, MaxTableLen)}

InitNamespacePrice ==
    /\ pc = "ready"
    /\ results = <<>>
    /\ namespace_id \in NamespaceIds
    /\ units \in {"BTC", "STACKS"}
    /\ price_table \in PriceTables
    /\ idx = 0
    /\ name = <<>> /\ namespace = None /\ price_multiplier = None
    /\ cost_unit = None /\ bucket_exponent = None /\ discount = None
    /\ price = None
    /\ IdleGrammar /\ IdleCheck /\ IdleTx /\ IdleOps

CallPriceNamespace ==
    /\ pc = "ready"
    /\ Return("price_namespace", price_namespace(namespace_id, price_table))
    /\ pc' = "done"
    /\ UNCHANGED <<idx, grammarVars, priceVars, units, namespacePriceVars,
                   checkVars, txVars, opsVars>>

NextNamespacePrice == CallPriceNamespace

SpecNamespacePrice == InitNamespacePrice /\ [][NextNamespacePrice]_vars

\* C5: price_namespace returns None when the price table is unavailable,
\* when namespace_id is empty, or when len(namespace_id) >= len(price_table);
\* otherwise it returns price_table[len(namespace_id)], so namespace IDs of
\* one length get one price.
C5_NamespacePrice ==
    Called("price_namespace") =>
        LET r == results["price_namespace"]
            n == Len(namespace_id)
        IN  /\ IsNone(r) <=>
                  \/ IsNone(price_table)
                  \/ n = 0
                  \/ (~IsNone(price_table) /\ n >= Len(Val(price_table)))
            /\ ~IsNone(r) => Val(r) = Val(price_table)[n + 1]
            /\ \A other \in NamespaceIds :
                  Len(other) = n => price_namespace(other, price_table) = r

C5_Witness ==
    /\ Called("price_namespace")
    /\ ~IsNone(results["price_namespace"])
    /\ Len(namespace_id) = Len(Val(price_table)) - 1
    /\ Val(price_table)[1] # Val(results["price_namespace"])

(***************************************************************************)
(* Field checkers: check_block, check_offset, check_count.                 *)
(* A Python value is [type, val].                                          *)
(***************************************************************************)
MaxInt == 3

FIRST_BLOCK_MAINNET == 373601
MAX_BLOCK == 10000000

\* the truth value of an optional integer: None and 0 are false
Truthy(o) == ~IsNone(o) /\ Val(o) # 0

\* check_block accepting block 0 in test mode
check_block_nonnegative(block_id, test) ==
    IF block_id.type \notin {"int", "long"}
    THEN FALSE
    ELSE IF test /\ block_id.val < 0
    THEN FALSE
    ELSE IF ~test /\ block_id.val < FIRST_BLOCK_MAINNET
    THEN FALSE
    ELSE IF block_id.val > MAX_BLOCK
    THEN FALSE
    ELSE TRUE

check_block(block_id, test) ==
    IF block_id.type \notin {"int", "long"}
    THEN FALSE
    ELSE IF test /\ block_id.val <= 0
    THEN FALSE
    ELSE IF ~test /\ block_id.val < FIRST_BLOCK_MAINNET
    THEN FALSE
    ELSE IF block_id.val > MAX_BLOCK
    THEN FALSE
    ELSE TRUE

check_offset(offset, max) ==
    IF offset.type \notin {"int", "long"}
    THEN FALSE
    ELSE IF offset.val < 0
    THEN FALSE
    ELSE IF Truthy(max) /\ offset.val > Val(max)
    THEN FALSE
    ELSE TRUE

check_count(count, max) ==
    IF count.type \notin {"int", "long"}
    THEN FALSE
    ELSE IF count.val < 0
    THEN FALSE
    ELSE IF Truthy(max) /\ count.val > Val(max)
    THEN FALSE
    ELSE TRUE

CheckInts ==
    ((0 - 2)..MaxInt)
        \cup {FIRST_BLOCK_MAINNET - 1, FIRST_BLOCK_MAINNET, MAX_BLOCK, MAX_BLOCK + 1}
CheckValues ==
    [type : {"int", "long"}, val : CheckInts] \cup {[type |-> "str", val |-> <<"0">>]}
MaxValues == {None} \cup {Some(n) : n \in 0..MaxInt}

InitCheck ==
    /\ pc = "ready"
    /\ results = <<>>
    /\ value \in CheckValues
    /\ max_value \in MaxValues
    /\ BLOCKSTACK_TEST \in BOOLEAN
    /\ idx = 0
    /\ IdleGrammar /\ IdlePrice /\ IdleNamespacePrice /\ IdleTx /\ IdleOps

CallCheckBlock ==
    /\ pc = "ready"
    /\ ~Called("check_block")
    /\ Return("check_block", check_block(value, BLOCKSTACK_TEST))
    /\ UNCHANGED <<pc, idx, grammarVars, priceVars, units, namespacePriceVars,
                   checkVars, txVars, opsVars>>

CallCheckOffset ==
    /\ pc = "ready"
    /\ ~Called("check_offset")
    /\ Return("check_offset", check_offset(value, max_value))
    /\ UNCHANGED <<pc, idx, grammarVars, priceVars, units, namespacePriceVars,
                   checkVars, txVars, opsVars>>

CallCheckCount ==
    /\ pc = "ready"
    /\ ~Called("check_count")
    /\ Return("check_count", check_count(value, max_value))
    /\ UNCHANGED <<pc, idx, grammarVars, priceVars, units, namespacePriceVars,
                   checkVars, txVars, opsVars>>

NextCheck ==
    \/ CallCheckBlock
    \/ CallCheckOffset
    \/ CallCheckCount

SpecCheck == InitCheck /\ [][NextCheck]_vars

IsInt(v) == v.type \in {"int", "long"}

\* C6 as stated: check_block(0) is False with the test flag off and True
\* with it on; check_block(10000001) is False whatever the flag.
C6_CheckBlockAsStated ==
    (Called("check_block") /\ IsInt(value)) =>
        /\ value.val = 0 => (results["check_block"] <=> BLOCKSTACK_TEST)
        /\ value.val = 10000001 => ~results["check_block"]

\* C6 amended: check_block(0) is False with the test flag off and with it
\* on; check_block(10000001) is False whatever the flag.
C6_CheckBlock ==
    (Called("check_block") /\ IsInt(value)) =>
        /\ value.val = 0 => ~results["check_block"]
        /\ value.val = 10000001 => ~results["check_block"]

C6_Witness ==
    /\ Called("check_block")
    /\ IsInt(value)
    /\ value.val = 0
    /\ BLOCKSTACK_TEST
    /\ ~results["check_block"]

InRange(v, max) == IF IsNone(max) THEN v >= 0 ELSE 0 <= v /\ v <= Val(max)

\* C7: for an integer v, check_offset(v, max_value) and
\* check_count(v, max_value) are True exactly when 0 <= v <= max_value, and,
\* with max_value not supplied, exactly when v >= 0.
C7_OffsetCountRange ==
    IsInt(value) =>
        /\ Called("check_offset") =>
              (results["check_offset"] <=> InRange(value.val, max_value))
        /\ Called("check_count") =>
              (results["check_count"] <=> InRange(value.val, max_value))

(***************************************************************************)
(* Transaction field extractor: get_public_key_hex_from_tx.                *)
(*                                                                         *)
(* The chain library is a collaborator: btc_script_deserialize maps a      *)
(* serialized script to its elements, BitcoinPublicKey accepts or rejects  *)
(* a candidate, and address() derives the address of an accepted one.      *)
(* They are tables over a few scripts: three pay-to-pubkey-hash spends     *)
(* with a valid key (two of the candidates derive the same address), one   *)
(* two-element script whose second element is no public key, and scripts   *)
(* of one and of three elements.                                           *)
(***************************************************************************)
MaxInputs == 3

SCRIPTS == {"p2pkh_K1", "p2pkh_k1", "p2pkh_K2", "p2pkh_bad", "p2pk", "multisig"}

btc_script_deserialize(script) ==
    CASE script = "p2pkh_K1" -> <<"sig", "K1">>
      [] script = "p2pkh_k1" -> <<"sig", "k1">>
      [] script = "p2pkh_K2" -> <<"sig", "K2">>
      [] script = "p2pkh_bad" -> <<"sig", "zz">>
      [] script = "p2pk" -> <<"sig">>
      [] script = "multisig" -> <<"OP_0", "sig", "sig">>

\* BitcoinPublicKey(candidate) does not raise
BitcoinPublicKeyAccepts(candidate) == candidate \in {"K1", "k1", "K2"}

\* BitcoinPublicKey(candidate).address()
pubkey_address(candidate) ==
    CASE candidate = "K1" -> "addr1"
      [] candidate = "k1" -> "addr1"
      [] candidate = "K2" -> "addr2"

ADDRESSES == {"addr1", "addr2", "addr3"}

\* the input the for loop is at, its script and the candidate key
inp == inputs[idx]
input_script_code == btc_script_deserialize(inp.script)
pubkey_candidate == PyIndex(input_script_code, 1)

InitTx ==
    /\ pc = "scan"
    /\ results = <<>>
    /\ inputs \in SeqsUpTo([script : SCRIPTS], MaxInputs)
    /\ address \in ADDRESSES
    /\ idx = 1
    /\ IdleGrammar /\ IdlePrice /\ IdleNamespacePrice /\ IdleCheck /\ IdleOps

TxContinue ==
    /\ idx' = idx + 1
    /\ UNCHANGED <<pc, results, grammarVars, priceVars, units,
                   namespacePriceVars, checkVars, txVars, opsVars>>

TxReturn(v) ==
    /\ Return("get_public_key_hex_from_tx", v)
    /\ pc' = "done"
    /\ UNCHANGED <<idx, grammarVars, priceVars, units, namespacePriceVars,
                   checkVars, txVars, opsVars>>

\* lines 221-224: the script has not two elements
TxSkipShape ==
    /\ pc = "scan"
    /\ idx <= Len(inputs)
    /\ Len(input_script_code) # 2
    /\ TxContinue

\* a rejected key ending the scan instead of being skipped
TxAbortOnInvalidKey ==
    /\ pc = "scan"
    /\ idx <= Len(inputs)
    /\ Len(input_script_code) = 2
    /\ ~BitcoinPublicKeyAccepts(pubkey_candidate)
    /\ TxReturn(None)

\* lines 226-233: BitcoinPublicKey raises
TxSkipInvalidKey ==
    /\ pc = "scan"
    /\ idx <= Len(inputs)
    /\ Len(input_script_code) = 2
    /\ ~BitcoinPublicKeyAccepts(pubkey_candidate)
    /\ TxContinue

\* lines 235-236: the derived address is another one
TxSkipAddress ==
    /\ pc = "scan"
    /\ idx <= Len(inputs)
    /\ Len(input_script_code) = 2
    /\ BitcoinPublicKeyAccepts(pubkey_candidate)
    /\ address # pubkey_address(pubkey_candidate)
    /\ TxContinue

\* lines 238-239
TxReturnKey ==
    /\ pc = "scan"
    /\ idx <= Len(inputs)
    /\ Len(input_script_code) = 2
    /\ BitcoinPublicKeyAccepts(pubkey_candidate)
    /\ address = pubkey_address(pubkey_candidate)
    /\ TxReturn(Some(pubkey_candidate))

\* line 241
TxReturnNone ==
    /\ pc = "scan"
    /\ idx > Len(inputs)
    /\ TxReturn(None)

NextTx ==
    \/ TxSkipShape
    \/ TxSkipInvalidKey
    \/ TxSkipAddress
    \/ TxReturnKey
    \/ TxReturnNone

SpecTx == InitTx /\ [][NextTx]_vars

Candidate(j) == btc_script_deserialize(inputs[j].script)[2]
Matches(j) ==
    /\ Len(btc_script_deserialize(inputs[j].script)) = 2
    /\ BitcoinPublicKeyAccepts(Candidate(j))
    /\ pubkey_address(Candidate(j)) = address
MatchingInputs == {j \in 1..Len(inputs) : Matches(j)}
FirstMatch == CHOOSE j \in MatchingInputs : \A k \in MatchingInputs : j <= k

\* C8: get_public_key_hex_from_tx returns the candidate key of the first
\* input whose script has two elements, whose key derivation succeeds and
\* whose derived address is the address asked for; any other input is
\* skipped and the scan goes on; it returns None exactly when no input
\* matches.
C8_FirstMatchingKey ==
    /\ pc = "scan" => \A j \in MatchingInputs : j >= idx
    /\ Called("get_public_key_hex_from_tx") =>
          LET r == results["get_public_key_hex_from_tx"]
          IN  /\ IsNone(r) <=> MatchingInputs = {}
              /\ MatchingInputs # {} => r = Some(Candidate(FirstMatch))

C8_Witness ==
    /\ Called("get_public_key_hex_from_tx")
    /\ Len(inputs) = 3
    /\ Len(btc_script_deserialize(inputs[1].script)) = 2
    /\ ~BitcoinPublicKeyAccepts(Candidate(1))
    /\ Matches(2)
    /\ Matches(3)
    /\ Candidate(2) # Candidate(3)
    /\ results["get_public_key_hex_from_tx"] = Some(Candidate(2))

(***************************************************************************)
(* Opcode filter: find_by_opcode.                                          *)
(* op_get_opcode_name is a collaborator, a table from the operation tag to *)
(* the opcode name.  The opcode argument is [type, val]: a str or a list.  *)
(***************************************************************************)
MaxOps == 3
MaxOpcodes == 2

op_get_opcode_name(op) ==
    CASE op = "?" -> "NAME_PREORDER"
      [] op = ":" -> "NAME_REGISTRATION"
      [] op = "+" -> "NAME_UPDATE"

OPCODE_NAMES == {"NAME_PREORDER", "NAME_REGISTRATION", "NAME_UPDATE"}

\* lines 197-198: the list the membership test of line 202 reads
OpcodeList(oc) == IF oc.type # "list" THEN <<oc.val>> ELSE oc.val

\* x in list
InList(x, list) == \E k \in 1..Len(list) : list[k] = x

OpRecords == [op : {"?", ":"}, txid : {1, 2}]
OpcodeArgs ==
    [type : {"str"}, val : OPCODE_NAMES]
        \cup [type : {"list"}, val : SeqsUpTo(OPCODE_NAMES, MaxOpcodes)]

InitOps ==
    /\ pc = "ready"
    /\ results = <<>>
    /\ checked_ops \in SeqsUpTo(OpRecords, MaxOps)
    /\ opcode \in OpcodeArgs
    /\ ret = None
    /\ idx = 0
    /\ IdleGrammar /\ IdlePrice /\ IdleNamespacePrice /\ IdleCheck /\ IdleTx

\* lines 197-200
FindStart ==
    /\ pc = "ready"
    /\ ret' = <<>>
    /\ idx' = 1
    /\ pc' = "loop"
    /\ UNCHANGED <<results, checked_ops, opcode, grammarVars, priceVars, units,
                   namespacePriceVars, checkVars, txVars>>

\* a matching record put at the front of ret
FindPrepend ==
    /\ pc = "loop"
    /\ idx <= Len(checked_ops)
    /\ InList(op_get_opcode_name(checked_ops[idx].op), OpcodeList(opcode))
    /\ ret' = <<checked_ops[idx]>> \o ret
    /\ idx' = idx + 1
    /\ UNCHANGED <<pc, results, checked_ops, opcode, grammarVars, priceVars,
                   units, namespacePriceVars, checkVars, txVars>>

\* lines 201-203, the opcode name is asked for
FindAppend ==
    /\ pc = "loop"
    /\ idx <= Len(checked_ops)
    /\ InList(op_get_opcode_name(checked_ops[idx].op), OpcodeList(opcode))
    /\ ret' = Append(ret, checked_ops[idx])
    /\ idx' = idx + 1
    /\ UNCHANGED <<pc, results, checked_ops, opcode, grammarVars, priceVars,
                   units, namespacePriceVars, checkVars, txVars>>

\* lines 201-202, the opcode name is not asked for
FindSkip ==
    /\ pc = "loop"
    /\ idx <= Len(checked_ops)
    /\ ~InList(op_get_opcode_name(checked_ops[idx].op), OpcodeList(opcode))
    /\ idx' = idx + 1
    /\ UNCHANGED <<pc, results, checked_ops, opcode, ret, grammarVars,
                   priceVars, units, namespacePriceVars, checkVars, txVars>>

\* line 205
FindReturn ==
    /\ pc = "loop"
    /\ idx > Len(checked_ops)
    /\ Return("find_by_opcode", ret)
    /\ pc' = "done"
    /\ UNCHANGED <<idx, grammarVars, priceVars, units, namespacePriceVars,
                   checkVars, txVars, opsVars>>

NextOps ==
    \/ FindStart
    \/ FindAppend
    \/ FindSkip
    \/ FindReturn

SpecOps == InitOps /\ [][NextOps]_vars

Requested ==
    IF opcode.type = "list"
    THEN {opcode.val[k] : k \in 1..Len(opcode.val)}
    ELSE {opcode.val}
MatchingOps ==
    {j \in 1..Len(checked_ops) : op_get_opcode_name(checked_ops[j].op) \in Requested}
\* the k-th matching position, in the order of checked_ops
NthMatch(k) ==
    CHOOSE j \in MatchingOps : Cardinality({m \in MatchingOps : m <= j}) = k
FilteredOps == [k \in 1..Cardinality(MatchingOps) |-> checked_ops[NthMatch(k)]]

C9_Filtered == Called("find_by_opcode") => results["find_by_opcode"] = FilteredOps

\* C9: find_by_opcode returns exactly the records of ops whose opcode name
\* is asked for (one opcode standing for the list of it), each once, in the
\* order of ops, and leaves ops unchanged.
C9_FindByOpcode == [](C9_Filtered) /\ [][checked_ops' = checked_ops]_vars

C9_Witness ==
    /\ Called("find_by_opcode")
    /\ opcode.type = "str"
    /\ Len(checked_ops) = 3
    /\ Len(results["find_by_opcode"]) = 2
    /\ results["find_by_opcode"][1] = checked_ops[1]
    /\ results["find_by_opcode"][2] = checked_ops[3]
    /\ checked_ops[1] # checked_ops[3]

====
